---------------------------- MODULE Spec2Model ----------------------------
(***************************************************************************)
(* CORS forwarding proxy of chroma-viewer (src/proxy-server.py).           *)
(*                                                                         *)
(* The proxy is a socketserver.TCPServer whose handler class is            *)
(* CORSProxyHandler.  The model follows one serve_forever loop: it takes   *)
(* connections from the listen backlog one at a time and runs the handler  *)
(* (do_OPTIONS or proxy_request) on each, step by step, with the client    *)
(* and the origin server as the environment.                               *)
(*                                                                         *)
(* Bytes are modelled as tokens: a client body is a prefix of ClientBytes, *)
(* an origin body is a string, a JSON error body is the dict it encodes.   *)
(* Header names are strings; str.lower() and str.capitalize() are tables   *)
(* over the names the model uses.  Time is abstracted: the 30-second       *)
(* urlopen timeout appears as the origin behaviour "timeout".              *)
(***************************************************************************)
EXTENDS Integers, Sequences, FiniteSets, TLC

(***************************************************************************)
(* Bounds of the model.                                                    *)
(***************************************************************************)
\* connections the clients open in the "server" slice
MaxConns == 2
\* longest inbound header list of the "headers" slice
MaxHdrs == 2
\* longest origin response header list of the "relay" slice
MaxOriginHdrs == 2
\* most body bytes a client sends
MaxBody == 2

(***************************************************************************)
(* ProxyConfig: the argparse defaults of main().                           *)
(***************************************************************************)
target_host == "localhost"

target_port == 8000

(***************************************************************************)
(* Header names.  Each entry gives a name as written on the wire, what     *)
(* str.lower() makes of it and what str.capitalize() makes of it.          *)
(***************************************************************************)
NameTable ==
  { [raw |-> "Host",                        lower |-> "host",                        cap |-> "Host"],
    [raw |-> "ORIGIN",                      lower |-> "origin",                      cap |-> "Origin"],
    [raw |-> "referer",                     lower |-> "referer",                     cap |-> "Referer"],
    [raw |-> "X-Custom",                    lower |-> "x-custom",                    cap |-> "X-custom"],
    [raw |-> "Authorization",               lower |-> "authorization",               cap |-> "Authorization"],
    [raw |-> "Content-Length",              lower |-> "content-length",              cap |-> "Content-length"],
    [raw |-> "Content-Type",                lower |-> "content-type",                cap |-> "Content-type"],
    [raw |-> "Transfer-Encoding",           lower |-> "transfer-encoding",           cap |-> "Transfer-encoding"],
    [raw |-> "connection",                  lower |-> "connection",                  cap |-> "Connection"],
    [raw |-> "Set-Cookie",                  lower |-> "set-cookie",                  cap |-> "Set-cookie"],
    [raw |-> "Access-Control-Allow-Origin", lower |-> "access-control-allow-origin", cap |-> "Access-control-allow-origin"],
    [raw |-> "Origin",                      lower |-> "origin",                      cap |-> "Origin"],
    [raw |-> "Referer",                     lower |-> "referer",                     cap |-> "Referer"],
    [raw |-> "X-custom",                    lower |-> "x-custom",                    cap |-> "X-custom"],
    [raw |-> "Content-length",              lower |-> "content-length",              cap |-> "Content-length"],
    [raw |-> "Server",                      lower |-> "server",                      cap |-> "Server"],
    [raw |-> "Date",                        lower |-> "date",                        cap |-> "Date"],
    [raw |-> "Access-Control-Allow-Methods", lower |-> "access-control-allow-methods", cap |-> "Access-control-allow-methods"],
    [raw |-> "Access-Control-Allow-Headers", lower |-> "access-control-allow-headers", cap |-> "Access-control-allow-headers"],
    [raw |-> "Access-Control-Max-Age",      lower |-> "access-control-max-age",      cap |-> "Access-control-max-age"] }

\* header_name.lower()
Lower(name) == (CHOOSE e \in NameTable : e.raw = name).lower

\* key.capitalize(), as urllib.request.Request.add_header applies it
Capitalize(name) == (CHOOSE e \in NameTable : e.raw = name).cap

\* A header list is a sequence of <<name, value>> pairs, in wire order.
HName(h) == h[1]

HValue(h) == h[2]

\* "no value": what headers.get returns for an absent header (None)
None == "<None>"

\* email.message.Message.get(name): the first header whose name matches
\* case-insensitively, or None
HeaderGet(headers, name) ==
  IF \E i \in DOMAIN headers : Lower(HName(headers[i])) = Lower(name)
    THEN HValue(headers[CHOOSE i \in DOMAIN headers :
                   /\ Lower(HName(headers[i])) = Lower(name)
                   /\ \A j \in 1..(i-1) : Lower(HName(headers[j])) # Lower(name)])
    ELSE None

\* int(content_length): the number a decimal string denotes, -1 for a
\* string int() rejects with ValueError
ParseInt(s) ==
  IF \E n \in 0..(MaxBody + 1) : ToString(n) = s
    THEN CHOOSE n \in 0..(MaxBody + 1) : ToString(n) = s
    ELSE -1

Min(a, b) == IF a <= b THEN a ELSE b

SeqsUpTo(S, n) == UNION { [1..k -> S] : k \in 0..n }

(***************************************************************************)
(* add_cors_headers: the four send_header calls, in order.                 *)
(***************************************************************************)
add_cors_headers ==
  << <<"Access-Control-Allow-Origin", "*">>,
     <<"Access-Control-Allow-Methods", "GET, POST, PUT, DELETE, OPTIONS">>,
     <<"Access-Control-Allow-Headers", "Content-Type, Authorization, X-Requested-With">>,
     <<"Access-Control-Max-Age", "86400">> >>

\* send_response(code): BaseHTTPRequestHandler writes the status line and
\* its own Server and Date headers before any header the handler sends
send_response_headers == << <<"Server", "BaseHTTP">>, <<"Date", "now">> >>


(***************************************************************************)
(* The handler's pure steps.                                               *)
(***************************************************************************)
\* variant of target_url that drops the request path
target_url_no_path(path) ==
  "http://" \o target_host \o ":" \o ToString(target_port)

\* line 63: target_url = f"http://{self.target_host}:{self.target_port}{self.path}"
target_url(path) ==
  "http://" \o target_host \o ":" \o ToString(target_port) \o path

\* line 84: the inbound headers that are not copied to the outbound request
ExcludedRequestHeader(name) == Lower(name) \in {"host", "origin", "referer"}

\* variant of HopByHop that compares without lower-casing
HopByHop_case_sensitive(name) == name \in {"transfer-encoding", "connection"}

\* line 97: the origin headers that are not relayed to the client
HopByHop(name) == Lower(name) \in {"transfer-encoding", "connection"}

\* Request.add_header(key, val): self.headers[key.capitalize()] = val, on a
\* dict that keeps insertion order: a key already present keeps its place and
\* takes the new value
add_header(hdrs, key, val) ==
  LET k == Capitalize(key) IN
  IF \E i \in DOMAIN hdrs : HName(hdrs[i]) = k
    THEN [i \in DOMAIN hdrs |-> IF HName(hdrs[i]) = k THEN <<k, val>> ELSE hdrs[i]]
    ELSE Append(hdrs, <<k, val>>)

\* lines 83-85: the loop over self.headers.items() that fills req
RECURSIVE CopyRequestHeaders(_, _)
CopyRequestHeaders(inbound, req_headers) ==
  IF inbound = <<>> THEN req_headers
  ELSE LET h == Head(inbound) IN
       CopyRequestHeaders(Tail(inbound),
         IF ExcludedRequestHeader(HName(h)) THEN req_headers
         ELSE add_header(req_headers, HName(h), HValue(h)))

\* lines 96-98: the loop over response.headers.items(); send_header appends
\* to the header buffer, so duplicates and order are kept
RECURSIVE CopyResponseHeaders(_)
CopyResponseHeaders(origin_headers) ==
  IF origin_headers = <<>> THEN <<>>
  ELSE LET h == Head(origin_headers) IN
       (IF HopByHop(HName(h)) THEN <<>> ELSE <<h>>)
         \o CopyResponseHeaders(Tail(origin_headers))

(***************************************************************************)
(* What the proxy writes to the client socket: header blocks (a status     *)
(* line with its headers, flushed by end_headers) and bodies.              *)
(***************************************************************************)
NoJson == [error |-> "", message |-> ""]

HeadBlock(status, headers) ==
  [kind |-> "head", status |-> status, headers |-> headers,
   raw |-> "", json |-> NoJson]

\* a body copied from the origin: wfile.write(response.read())
RawBody(data) ==
  [kind |-> "body", status |-> 0, headers |-> <<>>, raw |-> data, json |-> NoJson]

\* a body the proxy makes: json.dumps(error_response).encode()
JsonBody(error, message) ==
  [kind |-> "json", status |-> 0, headers |-> <<>>, raw |-> "",
   json |-> [error |-> error, message |-> message]]

\* variant of do_OPTIONS_response that answers 204
do_OPTIONS_response_204 ==
  << HeadBlock(204, send_response_headers \o add_cors_headers) >>

\* lines 39-41: do_OPTIONS writes a header block and nothing else
do_OPTIONS_response ==
  << HeadBlock(200, send_response_headers \o add_cors_headers) >>

\* lines 90-100: status and headers of a relayed origin response
relay_head(response) ==
  HeadBlock(response.status,
            send_response_headers \o add_cors_headers
              \o CopyResponseHeaders(response.headers))

\* line 103
relay_body(response) == RawBody(response.body)

\* lines 114-120: the except urllib.error.HTTPError branch
http_error_response(e) ==
  << HeadBlock(e.status,
               send_response_headers \o add_cors_headers
                 \o << <<"Content-Type", "application/json">> >>),
     JsonBody("HTTP " \o ToString(e.status), e.reason) >>

\* variant of proxy_error_response that leaves the CORS headers out
proxy_error_response_no_cors(message) ==
  << HeadBlock(500,
               send_response_headers
                 \o << <<"Content-Type", "application/json">> >>),
     JsonBody("Proxy Error", message) >>

\* lines 124-130: the except Exception branch
proxy_error_response(message) ==
  << HeadBlock(500,
               send_response_headers \o add_cors_headers
                 \o << <<"Content-Type", "application/json">> >>),
     JsonBody("Proxy Error", message) >>


(***************************************************************************)
(* Inputs.  The input space is explored in slices, each varying one part   *)
(* of the input widely and the rest over a few typical values:             *)
(*   "request"  methods, paths, Content-Length and body bytes;             *)
(*   "headers"  inbound header lists;                                      *)
(*   "relay"    origin responses;                                          *)
(*   "server"   several connections.                                       *)
(***************************************************************************)
Methods == {"GET", "POST", "PUT", "DELETE", "OPTIONS"}

Forwarded == {"GET", "POST", "PUT", "DELETE"}

Paths == {"/api/v1/collections?limit=10", "/x"}

\* the byte stream a client sends as its body: a prefix of it
ClientBytes == [i \in 1..(MaxBody + 1) |-> "b" \o ToString(i)]

Request(method, path, headers) ==
  [method |-> method, path |-> path, headers |-> headers]

WithContentLength(headers, cl) ==
  IF cl = None THEN headers ELSE Append(headers, <<"Content-Length", cl>>)

TypicalHeaders ==
  << <<"Host", "x">>, <<"ORIGIN", "y">>, <<"referer", "z">>, <<"X-Custom", "w">> >>

InboundPool ==
  { <<"Host", "x">>, <<"ORIGIN", "y">>, <<"referer", "z">>,
    <<"X-Custom", "w">>, <<"X-Custom", "w2">>, <<"Authorization", "tok">> }

ContentLengths == {None, "x"} \cup { ToString(n) : n \in 0..MaxBody }

RequestPool(slice) ==
  CASE slice = "request" ->
         { Request(m, p, WithContentLength(h, cl)) :
             m \in Methods, p \in Paths, h \in {<<>>, TypicalHeaders},
             cl \in ContentLengths }
    [] slice = "headers" ->
         { Request(m, "/x", h) :
             m \in {"GET", "POST", "OPTIONS"}, h \in SeqsUpTo(InboundPool, MaxHdrs) }
    [] slice = "relay" ->
         { Request("GET", "/api/v1/collections?limit=10", TypicalHeaders),
           Request("OPTIONS", "/x", TypicalHeaders) }
    [] slice = "server" ->
         { Request("GET", "/x", <<>>),
           Request("OPTIONS", "/x", <<>>),
           Request("POST", "/x", <<<<"Content-Length", ToString(MaxBody)>>>>) }

\* What the origin does with one forwarded request.  "respond": a well-formed
\* response; "truncate": status line and headers, then the connection fails
\* while the body is read; "refuse": connection refused; "timeout": nothing
\* within the timeout; "reset": connection reset before any response;
\* "garbage": bytes that are no HTTP response.
Origin(kind, status, reason, headers, body) ==
  [kind |-> kind, status |-> status, reason |-> reason,
   headers |-> headers, body |-> body]

NoOrigin == Origin("none", 0, "", <<>>, "")

Reasons == [s \in {200, 201, 404, 500} |->
              CASE s = 200 -> "OK" [] s = 201 -> "Created"
                [] s = 404 -> "Not Found" [] s = 500 -> "Internal Server Error"]

OriginFailures ==
  { Origin(k, 0, "", <<>>, "") : k \in {"refuse", "timeout", "reset", "garbage"} }

OriginHeaderPool ==
  { <<"Content-Type", "application/json">>, <<"Transfer-Encoding", "chunked">>,
    <<"connection", "close">>, <<"Set-Cookie", "a=1">>, <<"Set-Cookie", "b=2">>,
    <<"Access-Control-Allow-Origin", "http://foo">> }

TypicalOriginHeaders ==
  << <<"Content-Type", "application/json">>, <<"connection", "close">> >>

BasicOrigins ==
  { Origin("respond", 200, Reasons[200], TypicalOriginHeaders, "{\"items\":[]}"),
    Origin("respond", 201, Reasons[201], TypicalOriginHeaders, ""),
    Origin("respond", 404, Reasons[404], TypicalOriginHeaders, "{\"detail\":\"not found\"}"),
    Origin("truncate", 200, Reasons[200], TypicalOriginHeaders, "{\"items\":[]}") }
  \cup OriginFailures

OriginPool(slice) ==
  CASE slice \in {"request", "headers"} -> BasicOrigins
    [] slice = "relay" ->
         { Origin("respond", s, Reasons[s], h, b) :
             s \in {200, 201, 404, 500},
             h \in SeqsUpTo(OriginHeaderPool, MaxOriginHdrs),
             b \in {"", "{\"items\":[]}", "{\"detail\":\"not found\"}"} }
         \cup BasicOrigins
    [] slice = "server" ->
         { Origin("respond", 200, Reasons[200], <<>>, "{\"items\":[]}"),
           Origin("respond", 404, Reasons[404], <<>>, "{\"detail\":\"not found\"}"),
           Origin("timeout", 0, "", <<>>, "") }

ConnsOf(slice) == IF slice = "server" THEN 1..MaxConns ELSE {1}

Conns == 1..MaxConns


(***************************************************************************)
(* State.                                                                  *)
(***************************************************************************)
VARIABLES
  slice,       \* the input slice of this run (never changes)
  client,      \* per connection: the request sent, the body bytes sent so
               \* far, whether the client half-closed (eof) or went away
  backlog,     \* connections waiting in the listen queue, in arrival order
  cur,         \* the connection the handler is running on, 0 when the
               \* server waits in serve_forever
  pc,          \* where the handler is
  post_data,   \* proxy_request's post_data
  exc,         \* str(e) of the exception the handler is about to handle
  upstream,    \* per connection: what the origin did with its request
  origin_log,  \* the requests the origin received, in order
  wire,        \* per connection: what the proxy wrote to the client socket
  done,        \* per connection: the server closed it (shutdown_request)
  fault        \* per connection: an exception left the handler
               \* (socketserver's handle_error)

vars ==
  << slice, client, backlog, cur, pc, post_data, exc, upstream, origin_log,
     wire, done, fault >>

NoRequest == Request("", "", <<>>)

NewClient ==
  [state |-> "new", req |-> NoRequest, sent |-> 0, eof |-> FALSE, alive |-> TRUE]

NoData == [is_none |-> TRUE, bytes |-> <<>>]

InitSlice(sl) ==
  /\ slice = sl
  /\ client = [c \in Conns |-> NewClient]
  /\ backlog = <<>>
  /\ cur = 0
  /\ pc = "idle"
  /\ post_data = NoData
  /\ exc = ""
  /\ upstream = [c \in Conns |-> NoOrigin]
  /\ origin_log = <<>>
  /\ wire = [c \in Conns |-> <<>>]
  /\ done = [c \in Conns |-> FALSE]
  /\ fault = [c \in Conns |-> FALSE]

Init == \E sl \in {"request", "headers", "relay"} : InitSlice(sl)

InitServer == InitSlice("server")

req == client[cur].req

(***************************************************************************)
(* The clients.                                                            *)
(***************************************************************************)
\* A client connects and sends its request line, its headers and the first
\* n bytes of its body.  Only a client that declares a Content-Length sends
\* body bytes.
ClientConnect(c) ==
  /\ c \in ConnsOf(slice)
  /\ client[c].state = "new"
  /\ \A d \in ConnsOf(slice) : d < c => client[d].state # "new"
  /\ \E r \in RequestPool(slice) :
       \E n \in 0..(IF HeaderGet(r.headers, "Content-Length") = None
                      THEN 0 ELSE MaxBody) :
         client' = [client EXCEPT ![c] =
                      [state |-> "open", req |-> r, sent |-> n,
                       eof |-> FALSE, alive |-> TRUE]]
  /\ backlog' = Append(backlog, c)
  /\ UNCHANGED << slice, cur, pc, post_data, exc, upstream, origin_log,
                  wire, done, fault >>

\* The client sends one more body byte.
ClientSend(c) ==
  /\ client[c].state = "open" /\ ~done[c]
  /\ client[c].alive /\ ~client[c].eof
  /\ HeaderGet(client[c].req.headers, "Content-Length") # None
  /\ client[c].sent < MaxBody
  /\ client' = [client EXCEPT ![c].sent = @ + 1]
  /\ UNCHANGED << slice, backlog, cur, pc, post_data, exc, upstream,
                  origin_log, wire, done, fault >>

\* The client shuts down its sending side: the proxy's reads see end of file.
ClientClose(c) ==
  /\ client[c].state = "open" /\ ~done[c]
  /\ client[c].alive /\ ~client[c].eof
  /\ client' = [client EXCEPT ![c].eof = TRUE]
  /\ UNCHANGED << slice, backlog, cur, pc, post_data, exc, upstream,
                  origin_log, wire, done, fault >>

\* The client goes away (connection reset): the proxy's reads and writes on
\* this connection raise from now on.
ClientAbort(c) ==
  /\ client[c].state = "open" /\ ~done[c]
  /\ client[c].alive
  /\ client' = [client EXCEPT ![c].alive = FALSE]
  /\ UNCHANGED << slice, backlog, cur, pc, post_data, exc, upstream,
                  origin_log, wire, done, fault >>

(***************************************************************************)
(* The server: socketserver.TCPServer.serve_forever (main, line 180-197).  *)
(* TCPServer handles one request at a time: it accepts the next connection *)
(* only after the handler of the previous one has returned.                *)
(***************************************************************************)
Accept ==
  /\ cur = 0
  /\ backlog # <<>>
  /\ cur' = Head(backlog)
  /\ backlog' = Tail(backlog)
  /\ pc' = "dispatch"
  /\ post_data' = NoData
  /\ exc' = ""
  /\ UNCHANGED << slice, client, upstream, origin_log, wire, done, fault >>

\* The handler has returned or an exception has left it: the server closes
\* the connection and goes back to waiting.
Finish ==
  /\ pc = "finish"
  /\ done' = [done EXCEPT ![cur] = TRUE]
  /\ cur' = 0
  /\ pc' = "idle"
  /\ UNCHANGED << slice, client, backlog, post_data, exc, upstream,
                  origin_log, wire, fault >>

(***************************************************************************)
(* Writing to the client.  A write on a connection whose client went away  *)
(* raises; an exception raised where no except clause of the handler       *)
(* covers it leaves the handler.                                           *)
(***************************************************************************)
\* a write made outside the try block or inside an except clause
WriteOrFault(items) ==
  IF client[cur].alive
    THEN /\ wire' = [wire EXCEPT ![cur] = @ \o items]
         /\ fault' = fault
    ELSE /\ wire' = wire
         /\ fault' = [fault EXCEPT ![cur] = TRUE]

(***************************************************************************)
(* do_OPTIONS (lines 37-41).                                               *)
(***************************************************************************)
do_OPTIONS ==
  /\ pc = "dispatch"
  /\ req.method = "OPTIONS"
  /\ WriteOrFault(do_OPTIONS_response)
  /\ pc' = "finish"
  /\ UNCHANGED << slice, client, backlog, cur, post_data, exc, upstream,
                  origin_log, done >>

(***************************************************************************)
(* proxy_request (lines 59-130), entered from do_GET, do_POST, do_PUT and  *)
(* do_DELETE (lines 43-57).                                                *)
(***************************************************************************)
content_length == HeaderGet(req.headers, "Content-Length")

\* lines 66-70, up to int(content_length)
ReadLength ==
  /\ pc = "dispatch"
  /\ req.method \in Forwarded
  /\ IF content_length = None \/ content_length = ""
       THEN /\ pc' = "forward"
            /\ exc' = exc
       ELSE IF ParseInt(content_length) < 0
         THEN /\ pc' = "except"
              /\ exc' = "invalid literal for int() with base 10"
         ELSE /\ pc' = "read_body"
              /\ exc' = exc
  /\ post_data' = NoData
  /\ UNCHANGED << slice, client, backlog, cur, upstream, origin_log, wire,
                  done, fault >>

\* line 70: self.rfile.read(n) returns when n bytes have arrived or the
\* client has closed its sending side, and raises when the connection was
\* reset; until then it blocks
ReadBody ==
  /\ pc = "read_body"
  /\ LET n == ParseInt(content_length) IN
       /\ client[cur].sent >= n \/ client[cur].eof \/ ~client[cur].alive
       /\ IF client[cur].sent < n /\ ~client[cur].eof
            THEN /\ pc' = "except"
                 /\ exc' = "[Errno 104] Connection reset by peer"
                 /\ post_data' = post_data
            ELSE /\ pc' = "forward"
                 /\ exc' = exc
                 /\ post_data' =
                      [is_none |-> FALSE,
                       bytes |-> SubSeq(ClientBytes, 1, Min(n, client[cur].sent))]
  /\ UNCHANGED << slice, client, backlog, cur, upstream, origin_log, wire,
                  done, fault >>

\* lines 80-85: the request handed to urlopen
outbound ==
  [conn |-> cur,
   method |-> req.method,
   url |-> target_url(req.path),
   headers |-> CopyRequestHeaders(req.headers, <<>>),
   body |-> post_data.bytes]

\* lines 77-88: the request is built and sent; a refused connection raises
\* before the origin receives anything
Forward ==
  /\ pc = "forward"
  /\ \E o \in OriginPool(slice) :
       /\ upstream' = [upstream EXCEPT ![cur] = o]
       /\ IF o.kind = "refuse"
            THEN /\ pc' = "except"
                 /\ exc' = "<urlopen error [Errno 111] Connection refused>"
                 /\ origin_log' = origin_log
            ELSE /\ pc' = "await"
                 /\ exc' = exc
                 /\ origin_log' = Append(origin_log, outbound)
  /\ UNCHANGED << slice, client, backlog, cur, post_data, wire, done, fault >>

\* line 88: urlopen(req, timeout=30) returns a response for a 2xx status,
\* raises HTTPError for another status and another exception when the
\* transport fails.  (urllib follows a 3xx redirect by itself; the origin
\* pools hold no 3xx status.)
Await ==
  /\ pc = "await"
  /\ LET o == upstream[cur] IN
       IF o.kind \in {"respond", "truncate"}
         THEN /\ pc' = IF o.status \in 200..299 THEN "relay_head" ELSE "except_http"
              /\ exc' = exc
         ELSE /\ pc' = "except"
              /\ exc' = CASE o.kind = "timeout" -> "timed out"
                          [] o.kind = "reset" -> "[Errno 104] Connection reset by peer"
                          [] o.kind = "garbage" -> "garbage"
  /\ UNCHANGED << slice, client, backlog, cur, post_data, upstream,
                  origin_log, wire, done, fault >>

\* lines 90-100: status line and headers; end_headers flushes them to the
\* client
RelayHead ==
  /\ pc = "relay_head"
  /\ IF client[cur].alive
       THEN /\ wire' = [wire EXCEPT ![cur] = Append(@, relay_head(upstream[cur]))]
            /\ pc' = "relay_body"
            /\ exc' = exc
       ELSE /\ wire' = wire
            /\ pc' = "except"
            /\ exc' = "[Errno 32] Broken pipe"
  /\ UNCHANGED << slice, client, backlog, cur, post_data, upstream,
                  origin_log, done, fault >>

\* line 103: self.wfile.write(response.read())
RelayBody ==
  /\ pc = "relay_body"
  /\ IF upstream[cur].kind = "truncate"
       THEN /\ wire' = wire
            /\ pc' = "except"
            /\ exc' = "IncompleteRead"
       ELSE IF client[cur].alive
         THEN /\ wire' = [wire EXCEPT ![cur] = Append(@, relay_body(upstream[cur]))]
              /\ pc' = "finish"
              /\ exc' = exc
         ELSE /\ wire' = wire
              /\ pc' = "except"
              /\ exc' = "[Errno 32] Broken pipe"
  /\ UNCHANGED << slice, client, backlog, cur, post_data, upstream,
                  origin_log, done, fault >>

\* lines 105-120: except urllib.error.HTTPError
ExceptHTTPError ==
  /\ pc = "except_http"
  /\ WriteOrFault(http_error_response(upstream[cur]))
  /\ pc' = "finish"
  /\ UNCHANGED << slice, client, backlog, cur, post_data, exc, upstream,
                  origin_log, done >>

\* lines 122-130: except Exception
ExceptException ==
  /\ pc = "except"
  /\ WriteOrFault(proxy_error_response(exc))
  /\ pc' = "finish"
  /\ UNCHANGED << slice, client, backlog, cur, post_data, exc, upstream,
                  origin_log, done >>

Handler ==
  \/ do_OPTIONS
  \/ ReadLength
  \/ ReadBody
  \/ Forward
  \/ Await
  \/ RelayHead
  \/ RelayBody
  \/ ExceptHTTPError
  \/ ExceptException

Next ==
  \/ \E c \in Conns : ClientConnect(c)
  \/ \E c \in Conns : ClientSend(c)
  \/ \E c \in Conns : ClientClose(c)
  \/ \E c \in Conns : ClientAbort(c)
  \/ Accept
  \/ Handler
  \/ Finish

Spec == Init /\ [][Next]_vars

SpecServer == InitServer /\ [][Next]_vars

\* The server thread is always scheduled: whatever step of the server or of
\* the handler is possible is eventually taken.  Nothing is assumed of the
\* clients.
FairSpec ==
  Init /\ [][Next]_vars /\ WF_vars(Accept) /\ WF_vars(Handler) /\ WF_vars(Finish)


(***************************************************************************)
(* Properties.                                                             *)
(***************************************************************************)
\* the header blocks (status line and headers) written to connection c
Heads(c) == { i \in DOMAIN wire[c] : wire[c][i].kind = "head" }

HasHeader(headers, name, value) ==
  \E j \in DOMAIN headers : headers[j] = <<name, value>>

HasCors(headers) ==
  /\ HasHeader(headers, "Access-Control-Allow-Origin", "*")
  /\ HasHeader(headers, "Access-Control-Allow-Methods", "GET, POST, PUT, DELETE, OPTIONS")
  /\ HasHeader(headers, "Access-Control-Allow-Headers", "Content-Type, Authorization, X-Requested-With")
  /\ HasHeader(headers, "Access-Control-Max-Age", "86400")

\* the origin answered connection c's request with a complete response
OriginAnswered(c) == upstream[c].kind = "respond"

\* forwarding connection c's request failed at transport level
TransportFailed(c) ==
  upstream[c].kind \in {"refuse", "timeout", "reset", "garbage", "truncate"}

\* C1: every header block the proxy writes (preflight, relayed response,
\* origin HTTP error, transport failure) holds the four CORS headers with
\* their fixed values.
C1_CorsOnEveryResponse ==
  \A c \in Conns : \A i \in Heads(c) : HasCors(wire[c][i].headers)

\* C1 witness: a transport failure has been answered with a header block.
C1_Witness ==
  \E c \in Conns :
    /\ done[c] /\ upstream[c].kind = "timeout"
    /\ Heads(c) # {}
    /\ client[c].req.headers # <<>>

\* C2: a well-formed non-2xx origin response reaches the client with the
\* origin's status and exactly the origin's body.
C2_OriginErrorPassthrough ==
  \A c \in Conns :
    (done[c] /\ client[c].alive /\ OriginAnswered(c)
       /\ upstream[c].status \notin 200..299)
    => /\ Len(wire[c]) = 2
       /\ wire[c][1].kind = "head" /\ wire[c][1].status = upstream[c].status
       /\ wire[c][2].kind = "body" /\ wire[c][2].raw = upstream[c].body

\* C3: an OPTIONS request is answered with status 200, the CORS headers and
\* no body, and the origin never receives a request for it.
C3_PreflightLocal ==
  \A c \in Conns :
    client[c].req.method = "OPTIONS" =>
      /\ \A i \in DOMAIN origin_log : origin_log[i].conn # c
      /\ upstream[c].kind = "none"
      /\ Len(wire[c]) <= 1
      /\ \A i \in DOMAIN wire[c] :
           /\ wire[c][i].kind = "head" /\ wire[c][i].status = 200
           /\ HasCors(wire[c][i].headers)
      /\ (done[c] /\ client[c].alive) => Len(wire[c]) = 1

\* C3 witness: a preflight that carried headers and body bytes is answered.
C3_Witness ==
  \E c \in Conns :
    /\ done[c] /\ client[c].req.method = "OPTIONS"
    /\ client[c].sent > 0 /\ client[c].req.path = "/api/v1/collections?limit=10"
    /\ Len(wire[c]) = 1

\* C4: a transport failure is answered with status 500, Content-Type
\* application/json and a JSON body {"error": "Proxy Error", "message": m}
\* with m not empty.
C4_TransportFailureIs500 ==
  \A c \in Conns :
    (done[c] /\ client[c].alive /\ TransportFailed(c))
    => /\ Len(wire[c]) = 2
       /\ wire[c][1].kind = "head" /\ wire[c][1].status = 500
       /\ HasHeader(wire[c][1].headers, "Content-Type", "application/json")
       /\ wire[c][2].kind = "json"
       /\ wire[c][2].json.error = "Proxy Error"
       /\ wire[c][2].json.message # ""

\* the (lower-cased name, value) pairs of a header list
HeaderSet(headers) ==
  { <<Lower(HName(headers[j])), HValue(headers[j])>> : j \in DOMAIN headers }

\* C5: the headers the origin receives are the inbound headers without
\* host, origin and referer; every other inbound header arrives with its
\* value.
C5_HeaderExclusion ==
  \A i \in DOMAIN origin_log :
    LET e == origin_log[i]
        inbound == HeaderSet(client[e.conn].req.headers)
    IN  HeaderSet(e.headers) =
          { h \in inbound : h[1] \notin {"host", "origin", "referer"} }

\* the body bytes connection c's request carries: what the client sent, up
\* to the declared Content-Length
DeclaredBody(c) ==
  LET cl == HeaderGet(client[c].req.headers, "Content-Length") IN
  IF cl = None THEN <<>>
  ELSE SubSeq(ClientBytes, 1, Min(ParseInt(cl), client[c].sent))

\* C6: the origin receives the same method, http://localhost:8000 followed
\* by the inbound path and query, and the same body; a 2xx answer reaches
\* the client with the same status and body.
C6_TransparentForwarding ==
  /\ \A i \in DOMAIN origin_log :
       LET e == origin_log[i]
           r == client[e.conn].req
       IN  /\ r.method \in {"GET", "POST", "PUT", "DELETE"}
           /\ e.method = r.method
           /\ e.url = "http://localhost:8000" \o r.path
           /\ e.body = DeclaredBody(e.conn)
  /\ \A c \in Conns :
       (done[c] /\ client[c].alive /\ OriginAnswered(c)
          /\ upstream[c].status \in 200..299)
       => /\ Cardinality({ i \in DOMAIN origin_log : origin_log[i].conn = c }) = 1
          /\ Len(wire[c]) = 2
          /\ wire[c][1].kind = "head" /\ wire[c][1].status = upstream[c].status
          /\ wire[c][2].kind = "body" /\ wire[c][2].raw = upstream[c].body

\* C6 witness: a POST with a body and a query string was forwarded and its
\* 200 answer with a body relayed.
C6_Witness ==
  \E c \in Conns :
    /\ done[c] /\ client[c].alive
    /\ client[c].req.method = "POST"
    /\ client[c].req.path = "/api/v1/collections?limit=10"
    /\ Len(DeclaredBody(c)) = MaxBody
    /\ OriginAnswered(c) /\ upstream[c].status = 200 /\ upstream[c].body # ""
    /\ Len(wire[c]) = 2 /\ wire[c][2].raw = upstream[c].body

\* connection c's first header block relays an origin response
Relayed(c) ==
  /\ upstream[c].kind \in {"respond", "truncate"}
  /\ upstream[c].status \in 200..299
  /\ wire[c] # <<>>

NotHopByHop(h) == Lower(h[1]) \notin {"transfer-encoding", "connection"}

\* C7: the headers of a relayed response are the proxy's own (Server, Date,
\* CORS) followed by the origin's headers without transfer-encoding and
\* connection, each with its value, in the origin's order.
C7_HopByHopStripped ==
  \A c \in Conns :
    Relayed(c) =>
      LET H == wire[c][1].headers
          O == upstream[c].headers
      IN  /\ HasCors(SubSeq(H, 1, 6))
          /\ \A j \in 7..Len(H) : NotHopByHop(H[j])
          /\ SubSeq(H, 7, Len(H)) = SelectSeq(O, NotHopByHop)

\* C7 witness: an origin response with a Transfer-Encoding header and
\* another header has been relayed.
C7_Witness ==
  \E c \in Conns :
    /\ Relayed(c) /\ done[c]
    /\ upstream[c].headers = << <<"Transfer-Encoding", "chunked">>, <<"Set-Cookie", "a=1">> >>
    /\ Len(wire[c][1].headers) = 7

\* C8: one request gets exactly one response: never a second status line,
\* and a response whenever the client is still there.
C8_ExactlyOneResponse ==
  \A c \in Conns :
    /\ Cardinality(Heads(c)) <= 1
    /\ (done[c] /\ client[c].alive) => Cardinality(Heads(c)) = 1

\* C9: every request that arrived is eventually resolved.
C9_EveryRequestResolved ==
  \A c \in Conns : (cur = c) ~> done[c]

\* C10: while the handler of one request is blocked (reading its body or
\* waiting on the origin), the listener can still take the next connection.
C10_NoInterference ==
  (/\ backlog # <<>>
   /\ \/ pc = "read_body" /\ ~ENABLED ReadBody
      \/ pc = "await")
  => ENABLED Accept

=============================================================================
